---- MODULE Spec2Model ----
(***************************************************************************)
(* State-machine model of src/python/gemini_core.py: the GeminiClient      *)
(* session (history, request cycle, compression), the tool invocation      *)
(* pipeline (_execute_tool_call) and the ToolRegistry.                      *)
(*                                                                         *)
(* The backend (generate_content, count_tokens) and the tools (validator,  *)
(* confirmation gate, description, execute) are external collaborators:    *)
(* every answer they can give, a raised exception included, is a           *)
(* nondeterministic choice made at the step that awaits them.              *)
(***************************************************************************)
EXTENDS Integers, Sequences, FiniteSets, TLC

VARIABLES
    config,     \* the Config the client was constructed with
    history,    \* GeminiClient.history : sequence of Content
    tools,      \* ToolRegistry.tools : insertion-ordered name -> tool mapping
    pc,         \* per caller: position inside send_message / try_compress_chat
    loc,        \* per caller: the locals of the running call and what it observed
    ops,        \* number of public operations started so far
    listed,     \* number of tool calls the backend has listed so far
    held,       \* the list a caller holds after get_history / set_history
    out,        \* the lines register_tool has printed
    check_failed    \* an exception has left a compression check before it replaced the history

vars == <<config, history, tools, pc, loc, ops, listed, held, out, check_failed>>

(***************************************************************************)
(* Bounds of the model.                                                    *)
(***************************************************************************)
MaxOps == 2        \* public operations started in one behaviour
MaxCalls == 2      \* tool calls listed by the backend in one behaviour
MaxRegistrations == 3     \* register_tool calls in one behaviour
MaxHeld == 2       \* length up to which a caller extends the list it holds
MaxSends == 4      \* send_message calls in one behaviour under sustained pressure

Procs == {"a", "b"}                 \* callers of the session
Msgs == {"hi"}                      \* user messages
CallNames == {"math_calculator", "no_such_tool"}     \* tool names a backend response may list

(***************************************************************************)
(* Data model.                                                             *)
(***************************************************************************)
\* Content.from_text(role, text): parts = [{'text': text}]
Content(role, text) == [role |-> role, text |-> text]

\* PromptManager.get_core_system_prompt(config.get_user_memory())
SystemPrompt == "You are a helpful AI assistant with access to various tools."

SystemContent == Content("system", SystemPrompt)

\* ChatInterface.__init__: Config(max_tokens=4000, compression_threshold=0.7), the
\* preserve fraction left at its default (fractions are kept in tenths: 7 is 0.7)
ChatConfig ==
    [max_tokens |-> 4000, compression_threshold |-> 7, compression_preserve_threshold |-> 3]

\* a Config with its own preserve fraction:
\* Config(max_tokens=2000, compression_preserve_threshold=0.6)
CustomConfig ==
    [max_tokens |-> 2000, compression_threshold |-> 8, compression_preserve_threshold |-> 6]

\* the configurations a session is constructed with
Configs == {ChatConfig, CustomConfig}

\* GeminiClient.__init__: the thresholds the client actually uses (tenths)
compression_token_threshold == 8
compression_preserve_threshold == 3

\* values count_tokens may return: 0, and the values around 0.8 * 4000
TokenCounts == {0, 3199, 3200}

(***************************************************************************)
(* Backend responses: a dict with an optional 'text' and an optional       *)
(* 'tool_calls' key.                                                       *)
(***************************************************************************)
RECURSIVE SeqsUpTo(_, _)
SeqsUpTo(S, n) ==
    IF n = 0 THEN {<<>>}
    ELSE LET shorter == SeqsUpTo(S, n - 1)
         IN shorter \cup {Append(s, x) : s \in {t \in shorter : Len(t) = n - 1}, x \in S}

CallLists(n) == SeqsUpTo(CallNames, n)

\* the responses that list at most n tool calls
\* (text only, neither key, tool calls only, and both keys with an empty list)
Responses(n) ==
    { [has_text |-> ht, text |-> IF ht THEN "ok" ELSE "",
       has_calls |-> FALSE, tool_calls |-> <<>>] : ht \in BOOLEAN }
    \cup
    { [has_text |-> FALSE, text |-> "", has_calls |-> TRUE, tool_calls |-> cs] :
        cs \in CallLists(n) }
    \cup
    { [has_text |-> TRUE, text |-> "ok", has_calls |-> TRUE, tool_calls |-> <<>>] }

\* the responses to a request that advertises no tools (summary, follow-up): the
\* backend may still answer with tool calls
PlainResponses ==
    {r \in Responses(1) : ~r.has_calls \/ r.tool_calls = <<"math_calculator">>}

\* (mutant) the default is taken whether or not the key is present
ResponseText_AlwaysDefault(resp, default) == default

\* (mutant) a missing text is the empty string, not the default
ResponseText_Empty(resp, default) == IF resp.has_text THEN resp.text ELSE ""

\* response.get('text', default)
ResponseText(resp, default) == IF resp.has_text THEN resp.text ELSE default

\* 'tool_calls' in response
HasToolCalls(resp) == resp.has_calls

(***************************************************************************)
(* Tools: what a tool's validator, confirmation gate, description and      *)
(* execute may do on one call.                                             *)
(***************************************************************************)
\* validate_tool_params -> Optional[str], or raises
ValidatorOutcomes ==
    { [kind |-> "none", reason |-> ""],
      [kind |-> "reason", reason |-> "bad"],
      [kind |-> "reason", reason |-> ""],
      [kind |-> "raise", reason |-> "validator failed"] }

\* should_confirm_execute -> False | ToolCallConfirmationDetails, or raises
ConfirmOutcomes == {"false", "details", "raise"}

\* get_description -> str, or raises
DescribeOutcomes == {"text", "raise"}

\* execute -> result (JSON-serializable or not), or raises Exception(msg)
ExecOutcomes ==
    { [kind |-> "ok", value |-> "r", serial |-> TRUE],
      [kind |-> "ok", value |-> "obj", serial |-> FALSE],
      [kind |-> "raise", value |-> "boom", serial |-> TRUE] }

\* a tool object: its construction arguments (name, description, parameter_schema)
\* and its identity
Tool(name, id, description, parameters) ==
    [name |-> name, id |-> id, description |-> description, parameters |-> parameters]

\* the tool a session is set up with
SetupTools ==
    { Tool("math_calculator", 1, "Performs mathematical calculations", "expression") }

\* the tool objects a registry may be given: two of them carry the same name
ToolObjs ==
    SetupTools \cup
    { Tool("math_calculator", 2, "Another calculator", "formula"),
      Tool("echo_tool", 3, "Echoes back the input message", "message") }

\* the names under which a tool may be looked up
ToolNames == {t.name : t \in ToolObjs} \cup CallNames

\* the caller of a session that is used by one caller at a time
Callers == {"a"}

\* One ToolResult dict: {'tool_name': n, 'result': r} or {'tool_name': n, 'error': e}
ToolResult(n, hr, r, he, e, s) ==
    [tool_name |-> n, has_result |-> hr, result |-> r, has_error |-> he, error |-> e,
     serial |-> s]

(***************************************************************************)
(* ToolRegistry.                                                           *)
(***************************************************************************)
\* ToolRegistry.get_tool: self.tools.get(name) is not None
HasTool(reg, name) == \E i \in 1..Len(reg) : reg[i].name = name

\* None in place of a tool
NoTool == Tool("", 0, "", "")

\* ToolRegistry.get_tool: self.tools.get(name)
GetTool(reg, name) ==
    IF HasTool(reg, name)
    THEN reg[CHOOSE i \in 1..Len(reg) : reg[i].name = name]
    ELSE NoTool

\* (mutant) a name that is already registered keeps its tool
Registered_KeepOld(reg, t) ==
    IF HasTool(reg, t.name) THEN reg ELSE Append(reg, t)

\* self.tools[tool.name] = tool: an existing key keeps its position
Registered(reg, t) ==
    IF HasTool(reg, t.name)
    THEN [i \in 1..Len(reg) |-> IF reg[i].name = t.name THEN t ELSE reg[i]]
    ELSE Append(reg, t)

\* BaseTool.schema
Schema(t) == [name |-> t.name, description |-> t.description, parameters |-> t.parameters]

\* (mutant) the schemas are listed newest first
GetFunctionDeclarations_Reversed(reg) ==
    [i \in 1..Len(reg) |-> Schema(reg[Len(reg) + 1 - i])]

\* [tool.schema for tool in self.tools.values()]: the mapping's order
GetFunctionDeclarations(reg) == [i \in 1..Len(reg) |-> Schema(reg[i])]

\* the line register_tool prints when the name is taken
Warning(name) ==
    "Warning: Tool with name '" \o name \o "' is already registered. Overwriting."

\* (mutant) an overwrite is silent
Printed_Never(reg, t, lines) == lines

\* if self.tools.get(tool.name): print(warning)
Printed(reg, t, lines) ==
    IF HasTool(reg, t.name) THEN Append(lines, Warning(t.name)) ELSE lines

(***************************************************************************)
(* Tool invocation pipeline: the pure parts of _execute_tool_call.         *)
(***************************************************************************)
\* (mutant) the error does not say which tool is missing
NotFoundResult_NoName(name) ==
    ToolResult(name, FALSE, "", TRUE, "Tool not found", TRUE)

\* if not tool: return {'tool_name': ..., 'error': f"Tool '{tool_name}' not found"}
NotFoundResult(name) ==
    ToolResult(name, FALSE, "", TRUE, "Tool '" \o name \o "' not found", TRUE)

\* if validation_error: (the truth value of an Optional[str])
ValidationFailed(v) == v.kind = "reason" /\ v.reason # ""

ValidationResult(name, v) ==
    ToolResult(name, FALSE, "", TRUE, "Parameter validation failed: " \o v.reason, TRUE)

\* (mutant) the description is asked for whatever the gate returned
NeedsConfirmation_Always(c) == TRUE

\* if confirmation and confirmation is not False:
NeedsConfirmation(c) == c = "details"

\* try: result = await tool.execute(...) ... except Exception as e: ... str(e)
ExecResult(name, e) ==
    IF e.kind = "ok"
    THEN ToolResult(name, TRUE, e.value, FALSE, "", e.serial)
    ELSE ToolResult(name, FALSE, "", TRUE, e.value, TRUE)

\* json.dumps(tool_results): the text of the 'function' Content
ResultJson(r) ==
    "{\"tool_name\": \"" \o r.tool_name \o "\", "
    \o (IF r.has_result THEN "\"result\": \"" \o r.result
                        ELSE "\"error\": \"" \o r.error)
    \o "\"}"

RECURSIVE JoinJson(_)
JoinJson(rs) ==
    IF rs = <<>> THEN ""
    ELSE ResultJson(Head(rs)) \o (IF Len(rs) > 1 THEN ", " ELSE "") \o JoinJson(Tail(rs))

JsonDumps(rs) == "[" \o JoinJson(rs) \o "]"

\* json.dumps raises TypeError on a value that is not JSON-serializable
JsonSerializable(rs) == \A i \in 1..Len(rs) : rs[i].serial

(***************************************************************************)
(* Compression: the pure parts of _check_and_compress_if_needed and        *)
(* try_compress_chat.                                                      *)
(***************************************************************************)
\* (mutant) the gate is one entry too low
TooShortToCheck_Four(h) == Len(h) < 4

\* if len(self.history) < 5: return None
TooShortToCheck(h) == Len(h) < 5

\* if token_count < (self.compression_token_threshold * max_tokens): return None
BelowThreshold(tc, max_tokens) == tc * 10 < compression_token_threshold * max_tokens

Max(a, b) == IF a >= b THEN a ELSE b

\* (mutant) the floor of the preserved suffix is 3 entries
PreserveCount_FloorThree(n) == Max(3, (n * compression_preserve_threshold) \div 10)

\* preserve_count = max(2, int(len(self.history) * self.compression_preserve_threshold))
PreserveCount(n) == Max(2, (n * compression_preserve_threshold) \div 10)

\* (mutant) the split point is one entry too far
SplitIndex_OneMore(n) == n - PreserveCount(n) + 1

\* split_index = len(self.history) - preserve_count (a negative index counts from the end)
SplitIndex(n) == n - PreserveCount(n)

\* Python slice bounds: a negative index is taken from the end, then clamped
SliceBound(n, i) == IF i < 0 THEN Max(0, n + i) ELSE IF i > n THEN n ELSE i

\* self.history[:split_index]
HistoryToCompress(h) == SubSeq(h, 1, SliceBound(Len(h), SplitIndex(Len(h))))

\* (mutant) nothing is left out of the slice that is kept
HistoryToKeep_Whole(h) == h

\* (mutant) the preserved suffix starts one entry after the split point
HistoryToKeep_SkipOne(h) == SubSeq(h, SliceBound(Len(h), SplitIndex(Len(h))) + 2, Len(h))

\* self.history[split_index:]
HistoryToKeep(h) == SubSeq(h, SliceBound(Len(h), SplitIndex(Len(h))) + 1, Len(h))

\* (mutant) the size of the compression target is not tested
TargetTooSmall_Never(target) == FALSE

\* if len(history_to_compress) < 2: return None
TargetTooSmall(target) == Len(target) < 2

Upper(role) ==
    CASE role = "system" -> "SYSTEM"
      [] role = "user" -> "USER"
      [] role = "model" -> "MODEL"
      [] role = "function" -> "FUNCTION"
      [] OTHER -> role

\* _format_history_for_summary
RECURSIVE FormatHistoryForSummary(_)
FormatHistoryForSummary(h) ==
    IF h = <<>> THEN ""
    ELSE Upper(Head(h).role) \o ": " \o Head(h).text
         \o (IF Len(h) > 1 THEN "\n" ELSE "") \o FormatHistoryForSummary(Tail(h))

\* PromptManager.get_compression_prompt() (its first line)
CompressionPrompt == "Please create a concise summary of the conversation history so far."

SummaryPrompt(target) ==
    "Please summarize this conversation history:\n\n" \o FormatHistoryForSummary(target)
    \o "\n\n" \o CompressionPrompt

\* (mutant) the rebuilt history starts with the summary turn
NewHistory_NoSystem(h, summary, keep) ==
    << Content("user", "Previous conversation summary: " \o summary),
       Content("model", "Got it. Thanks for the additional context!") >> \o keep

\* (mutant) the oldest turns are kept instead of the newest
NewHistory_KeepFirst(h, summary, keep) ==
    << h[1],
       Content("user", "Previous conversation summary: " \o summary),
       Content("model", "Got it. Thanks for the additional context!") >>
    \o SubSeq(h, 2, 1 + Len(keep))

\* new_history = [self.history[0], summary turn, acknowledgment turn, *history_to_keep]
NewHistory(h, summary, keep) ==
    << h[1],
       Content("user", "Previous conversation summary: " \o summary),
       Content("model", "Got it. Thanks for the additional context!") >> \o keep

(***************************************************************************)
(* The locals of one running call, and what the call observed.             *)
(***************************************************************************)
\* a float that is the quotient of two integers, kept as the exact fraction
Ratio(num, den) == [num |-> num, den |-> den]

\* (mutant) the quotient is taken the wrong way round
CompressionRatio_Inverted(original, new) ==
    IF new > 0 THEN Ratio(original, new) ELSE Ratio(1, 1)

\* ChatCompressionInfo.__post_init__: new / original when original > 0, else 1.0
CompressionRatio(original, new) ==
    IF original > 0 THEN Ratio(new, original) ELSE Ratio(1, 1)

\* ChatCompressionInfo(original_token_count=..., new_token_count=...)
ChatCompressionInfo(original, new) ==
    [set |-> TRUE, original_token_count |-> original, new_token_count |-> new,
     compression_ratio |-> CompressionRatio(original, new)]

\* None in place of a ChatCompressionInfo
NoInfo ==
    [set |-> FALSE, original_token_count |-> 0, new_token_count |-> 0,
     compression_ratio |-> Ratio(1, 1)]

NoResponse ==
    [set |-> FALSE, has_text |-> FALSE, text |-> "", has_calls |-> FALSE, tool_calls |-> <<>>]

\* a response dict held in a local variable
Received(resp) ==
    [set |-> TRUE, has_text |-> resp.has_text, text |-> resp.text,
     has_calls |-> resp.has_calls, tool_calls |-> resp.tool_calls]

NoValidation == [kind |-> "none", reason |-> ""]

NoLocals ==
    [ op |-> "none",            \* "send" or "compress": the public operation running
      force |-> FALSE,          \* try_compress_chat's argument
      message |-> "",           \* send_message's argument
      before |-> <<>>,          \* the history when the operation was called
      started |-> 0,            \* the number of this operation among those started
      alone |-> TRUE,           \* no other call was running when this one started
      response |-> NoResponse,  \* send_message's response
      tool_calls |-> <<>>,      \* response['tool_calls']
      idx |-> 0,                \* position of the for loop over the tool calls
      validation_error |-> NoValidation,   \* _execute_tool_call's validation_error
      confirmation |-> "none",  \* _execute_tool_call's confirmation
      tool_results |-> <<>>,    \* send_message's tool_results
      final_response |-> NoResponse,       \* send_message's final_response
      token_count |-> -1,       \* _check_and_compress_if_needed's token_count (-1: none)
      original_token_count |-> 0,
      new_token_count |-> 0,
      preserve_count |-> 0,     \* try_compress_chat's preserve_count
      split_index |-> 0,        \* try_compress_chat's split_index
      history_to_compress |-> <<>>,
      history_to_keep |-> <<>>,
      summary_response |-> NoResponse,     \* try_compress_chat's summary_response
      replaced |-> FALSE,       \* a compression pass replaced self.history
      info |-> NoInfo,          \* the ChatCompressionInfo returned, if any
      returned |-> FALSE,       \* send_message returned response_text
      response_text |-> "",
      exc |-> "none",           \* the exception that left the call, if any
      events |-> <<>>,          \* tool methods invoked, in order: <<call index, method>>
      requests |-> <<>> ]       \* backend calls issued, in order

\* one backend call: generate_content(contents, tools, system_instruction) or
\* count_tokens(contents)
Request(fn, phase, contents, decls, sys) ==
    [fn |-> fn, phase |-> phase, contents |-> contents, tools |-> decls,
     system_instruction |-> sys]

Idle == \A q \in Procs : pc[q] = "idle"

\* the extent of the try block of _execute_tool_call: only execute is inside it
Caught(stage) == stage = "execute"

(***************************************************************************)
(* GeminiClient.__init__                                                   *)
(***************************************************************************)
Init ==
    /\ config = ChatConfig
    /\ history = <<SystemContent>>
    /\ tools = <<>>
    /\ pc = [p \in Procs |-> "idle"]
    /\ loc = [p \in Procs |-> NoLocals]
    /\ ops = 0
    /\ listed = 0
    /\ held = <<>>
    /\ out = <<>>
    /\ check_failed = FALSE

\* (mutant) the exception is swallowed and the call returns
Raise_Swallowed(p, l, what) ==
    /\ pc' = [pc EXCEPT ![p] = "done"]
    /\ loc' = [loc EXCEPT ![p] = [l EXCEPT !.exc = what]]

\* the call leaves with an exception: nothing else changes
Raise(p, l, what) ==
    /\ pc' = [pc EXCEPT ![p] = "raised"]
    /\ loc' = [loc EXCEPT ![p] = [l EXCEPT !.exc = what]]

\* try_compress_chat after its entry test: len(self.history) < 2 returns None,
\* otherwise count_tokens is awaited
AfterCompressEntry(h) == IF Len(h) < 2 THEN "compress_return" ELSE "original_count"

\* (mutant) send_message runs the check again after a pass
AfterCheck_Recheck(l) == IF l.op = "send" THEN "check_count" ELSE "done"

\* where a call continues once try_compress_chat / the check has returned
AfterCheck(l) == IF l.op = "send" THEN "generate" ELSE "done"

\* send_message drops what _check_and_compress_if_needed returns; a direct caller
\* of try_compress_chat receives it
Kept(l, info) == IF l.op = "send" THEN NoInfo ELSE info

\* try_compress_chat has returned into send_message: its locals are gone (a direct
\* caller's call is over, and its locals stay on view until the caller goes on)
Left(l) ==
    IF l.op = "send"
    THEN [l EXCEPT !.original_token_count = 0, !.new_token_count = 0,
                   !.preserve_count = 0, !.split_index = 0,
                   !.history_to_compress = <<>>, !.history_to_keep = <<>>,
                   !.summary_response = NoResponse]
    ELSE l

(***************************************************************************)
(* ToolRegistry.register_tool (setup: before the session serves requests)  *)
(***************************************************************************)
RegisterTool(t) ==
    /\ Idle /\ ops = 0
    /\ Len(tools) + Len(out) < MaxRegistrations
    /\ out' = Printed(tools, t, out)
    /\ tools' = Registered(tools, t)
    /\ UNCHANGED <<check_failed, held, config, history, pc, loc, ops, listed>>

(***************************************************************************)
(* GeminiClient.send_message, up to the first await                        *)
(***************************************************************************)
\* send_message as one of at most `limit` operations of the behaviour
SendMessageWithin(p, m, limit) ==
    /\ pc[p] = "idle" /\ ops < limit
    /\ ops' = ops + 1
    /\ LET h == Append(history, Content("user", m))
       IN /\ history' = h
          /\ loc' = [loc EXCEPT ![p] =
                        [NoLocals EXCEPT !.op = "send", !.message = m, !.before = history,
                                         !.started = ops + 1,
                                         !.alone = \A q \in Procs \ {p} : pc[q] = "idle"]]
          /\ pc' = [pc EXCEPT ![p] = IF TooShortToCheck(h) THEN "generate" ELSE "check_count"]
    /\ UNCHANGED <<check_failed, held, out, config, tools, listed>>

\* (mutant) the request cycle starts without the user turn being appended
SendMessage_NoAppend(p, m) ==
    /\ pc[p] = "idle" /\ ops < MaxOps
    /\ ops' = ops + 1
    /\ history' = history
    /\ loc' = [loc EXCEPT ![p] =
                  [NoLocals EXCEPT !.op = "send", !.message = m, !.before = history]]
    /\ pc' = [pc EXCEPT ![p] = IF TooShortToCheck(history) THEN "generate" ELSE "check_count"]
    /\ UNCHANGED <<check_failed, held, out, config, tools, listed>>

SendMessage(p, m) == SendMessageWithin(p, m, MaxOps)

(***************************************************************************)
(* _check_and_compress_if_needed: token_count = await count_tokens(history) *)
(***************************************************************************)
CheckCount(p) ==
    /\ pc[p] = "check_count"
    /\ LET l == [loc[p] EXCEPT !.requests =
                    Append(@, Request("count_tokens", "check", history, <<>>, FALSE))]
       IN \/ Raise(p, l, "backend")
          \/ \E tc \in TokenCounts :
                /\ loc' = [loc EXCEPT ![p] = [l EXCEPT !.token_count = tc]]
                /\ pc' = [pc EXCEPT ![p] =
                            IF BelowThreshold(tc, config.max_tokens) THEN "generate"
                            ELSE AfterCompressEntry(history)]
    /\ UNCHANGED <<held, out, config, history, tools, ops, listed>>
    /\ check_failed' = (check_failed \/ pc'[p] = "raised")

(***************************************************************************)
(* GeminiClient.try_compress_chat, called directly                         *)
(***************************************************************************)
TryCompressChat(p, force) ==
    /\ pc[p] = "idle" /\ ops < MaxOps
    /\ ops' = ops + 1
    /\ loc' = [loc EXCEPT ![p] =
                  [NoLocals EXCEPT !.op = "compress", !.force = force, !.before = history,
                                   !.started = ops + 1,
                                   !.alone = \A q \in Procs \ {p} : pc[q] = "idle"]]
    /\ pc' = [pc EXCEPT ![p] = AfterCompressEntry(history)]
    /\ UNCHANGED <<check_failed, held, out, config, history, tools, listed>>

\* try_compress_chat returned None before any await
CompressReturn(p) ==
    /\ pc[p] = "compress_return"
    /\ pc' = [pc EXCEPT ![p] = AfterCheck(loc[p])]
    /\ UNCHANGED <<check_failed, held, out, config, history, tools, loc, ops, listed>>

\* original_token_count = await count_tokens(history); split point; target test
OriginalCount(p) ==
    /\ pc[p] = "original_count"
    /\ LET l == [loc[p] EXCEPT !.requests =
                    Append(@, Request("count_tokens", "original", history, <<>>, FALSE))]
       IN \/ Raise(p, l, "backend")
          \/ \E tc \in TokenCounts :
                IF TargetTooSmall(HistoryToCompress(history))
                THEN /\ loc' = [loc EXCEPT ![p] = l]
                     /\ pc' = [pc EXCEPT ![p] = AfterCheck(l)]
                ELSE /\ loc' = [loc EXCEPT ![p] =
                                  [l EXCEPT !.original_token_count = tc,
                                            !.preserve_count = PreserveCount(Len(history)),
                                            !.split_index = SplitIndex(Len(history)),
                                            !.history_to_compress = HistoryToCompress(history),
                                            !.history_to_keep = HistoryToKeep(history)]]
                     /\ pc' = [pc EXCEPT ![p] = "summarize"]
    /\ UNCHANGED <<held, out, config, history, tools, ops, listed>>
    /\ check_failed' = (check_failed \/ pc'[p] = "raised")

\* summary_response = await generate_content([summary prompt]); history replaced
Summarize(p) ==
    /\ pc[p] = "summarize"
    /\ LET l == [loc[p] EXCEPT !.requests =
                    Append(@, Request("generate_content", "summary",
                                      <<Content("user", SummaryPrompt(loc[p].history_to_compress))>>,
                                      <<>>, FALSE))]
       IN \/ Raise(p, l, "backend") /\ UNCHANGED history
          \/ \E resp \in PlainResponses :
                IF history = <<>>
                THEN Raise(p, l, "IndexError") /\ UNCHANGED history   \* self.history[0]
                ELSE /\ history' = NewHistory(history,
                                              ResponseText(resp, "Summary not available"),
                                              l.history_to_keep)
                     /\ loc' = [loc EXCEPT ![p] =
                                  [l EXCEPT !.summary_response = Received(resp),
                                            !.replaced = TRUE]]
                     /\ pc' = [pc EXCEPT ![p] = "new_count"]
    /\ UNCHANGED <<held, out, config, tools, ops, listed>>
    /\ check_failed' = (check_failed \/ pc'[p] = "raised")

\* new_token_count = await count_tokens(history); return ChatCompressionInfo
NewCount(p) ==
    /\ pc[p] = "new_count"
    /\ LET l == [loc[p] EXCEPT !.requests =
                    Append(@, Request("count_tokens", "new", history, <<>>, FALSE))]
       IN \/ Raise(p, l, "backend")
          \/ \E tc \in TokenCounts :
                /\ loc' = [loc EXCEPT ![p] =
                            [Left([l EXCEPT !.new_token_count = tc]) EXCEPT !.info =
                                Kept(l, ChatCompressionInfo(l.original_token_count, tc))]]
                /\ pc' = [pc EXCEPT ![p] = AfterCheck(l)]
    /\ UNCHANGED <<check_failed, held, out, config, history, tools, ops, listed>>

(***************************************************************************)
(* send_message: response = await generate_content(history, tools, system) *)
(***************************************************************************)
\* (mutant) the response text is returned without being appended to history
Respond_NoAppend(p, l, h, text) ==
    /\ history' = h
    /\ loc' = [loc EXCEPT ![p] = [l EXCEPT !.returned = TRUE, !.response_text = text]]
    /\ pc' = [pc EXCEPT ![p] = "done"]

\* (mutant) the model turn overwrites the last entry instead of being appended
Respond_Overwrite(p, l, h, text) ==
    /\ history' = [h EXCEPT ![Len(h)] = Content("model", text)]
    /\ loc' = [loc EXCEPT ![p] = [l EXCEPT !.returned = TRUE, !.response_text = text]]
    /\ pc' = [pc EXCEPT ![p] = "done"]

\* history.append(Content.from_text('model', response_text)); return response_text
Respond(p, l, h, text) ==
    /\ history' = Append(h, Content("model", text))
    /\ loc' = [loc EXCEPT ![p] = [l EXCEPT !.returned = TRUE, !.response_text = text]]
    /\ pc' = [pc EXCEPT ![p] = "done"]

\* after the for loop: history.append(Content.from_text('function', json.dumps(tool_results)))
RecordResults(p, l) ==
    IF JsonSerializable(l.tool_results)
    THEN /\ history' = Append(history, Content("function", JsonDumps(l.tool_results)))
         /\ loc' = [loc EXCEPT ![p] = l]
         /\ pc' = [pc EXCEPT ![p] = "final"]
    ELSE Raise(p, l, "TypeError") /\ UNCHANGED history

Generate(p) ==
    /\ pc[p] = "generate"
    /\ LET l == [loc[p] EXCEPT !.token_count = -1,     \* the check has returned
                                !.requests =
                    Append(@, Request("generate_content", "first", history,
                                      GetFunctionDeclarations(tools), TRUE))]
       IN \/ Raise(p, l, "backend") /\ UNCHANGED <<history, listed>>
          \/ \E resp \in Responses(MaxCalls - listed) :
                /\ listed' = listed + Len(resp.tool_calls)
                /\ LET l2 == [l EXCEPT !.response = Received(resp)]
                   IN IF HasToolCalls(resp)
                      THEN IF resp.tool_calls = <<>>
                           THEN RecordResults(p, l2)
                           ELSE /\ loc' = [loc EXCEPT ![p] =
                                             [l2 EXCEPT !.tool_calls = resp.tool_calls,
                                                        !.idx = 1]]
                                /\ pc' = [pc EXCEPT ![p] = "tool"]
                                /\ UNCHANGED history
                      ELSE Respond(p, l2, history,
                                   ResponseText(resp, "No response generated."))
    /\ UNCHANGED <<check_failed, held, out, config, tools, ops>>

(***************************************************************************)
(* _execute_tool_call for tool_calls[idx]                                  *)
(***************************************************************************)
\* tool_results.append(result), then the next call or the end of the loop
FinishCall(p, l, result) ==
    LET l2 == [l EXCEPT !.tool_results = Append(@, result),
                        !.validation_error = NoValidation,
                        !.confirmation = "none"]
    IN IF l.idx = Len(l.tool_calls)
       THEN RecordResults(p, l2)
       ELSE /\ loc' = [loc EXCEPT ![p] = [l2 EXCEPT !.idx = @ + 1]]
            /\ pc' = [pc EXCEPT ![p] = "tool"]
            /\ UNCHANGED history

\* an exception of a tool method: caught into a ToolResult error, or propagated
ToolRaised(p, l, stage, name, msg) ==
    IF Caught(stage)
    THEN FinishCall(p, l, ExecResult(name, [kind |-> "raise", value |-> msg, serial |-> TRUE]))
    ELSE Raise(p, l, stage) /\ UNCHANGED history

Event(l, method) == [l EXCEPT !.events = Append(@, <<l.idx, method>>)]

\* registry lookup and validate_tool_params (no await between them)
ToolValidate(p) ==
    /\ pc[p] = "tool"
    /\ LET l == loc[p]
           name == l.tool_calls[l.idx]
       IN IF ~HasTool(tools, name)
          THEN FinishCall(p, l, NotFoundResult(name))
          ELSE \E v \in ValidatorOutcomes :
                 LET l2 == Event(l, "validate")
                 IN IF v.kind = "raise"
                    THEN ToolRaised(p, l2, "validate", name, v.reason)
                    ELSE IF ValidationFailed(v)
                    THEN FinishCall(p, l2, ValidationResult(name, v))
                    ELSE /\ loc' = [loc EXCEPT ![p] = [l2 EXCEPT !.validation_error = v]]
                         /\ pc' = [pc EXCEPT ![p] = "confirm"]
                         /\ UNCHANGED history
    /\ UNCHANGED <<check_failed, held, out, config, tools, ops, listed>>

\* confirmation = await tool.should_confirm_execute(...); get_description if requested
ToolConfirm(p) ==
    /\ pc[p] = "confirm"
    /\ LET l == Event(loc[p], "confirm")
           name == l.tool_calls[l.idx]
       IN \E c \in ConfirmOutcomes :
            IF c = "raise"
            THEN ToolRaised(p, l, "confirm", name, "confirm failed")
            ELSE IF NeedsConfirmation(c)
            THEN \E d \in DescribeOutcomes :
                    LET l2 == Event(l, "describe")
                    IN IF d = "raise"
                       THEN ToolRaised(p, l2, "describe", name, "describe failed")
                       ELSE /\ loc' = [loc EXCEPT ![p] = [l2 EXCEPT !.confirmation = c]]
                            /\ pc' = [pc EXCEPT ![p] = "execute"]
                            /\ UNCHANGED history
            ELSE /\ loc' = [loc EXCEPT ![p] = [l EXCEPT !.confirmation = c]]
                 /\ pc' = [pc EXCEPT ![p] = "execute"]
                 /\ UNCHANGED history
    /\ UNCHANGED <<check_failed, held, out, config, tools, ops, listed>>

\* result = await tool.execute(tool_params), inside try / except Exception
ToolExecute(p) ==
    /\ pc[p] = "execute"
    /\ LET l == Event(loc[p], "execute")
           name == l.tool_calls[l.idx]
       IN \E e \in ExecOutcomes :
            IF e.kind = "raise"
            THEN ToolRaised(p, l, "execute", name, e.value)
            ELSE FinishCall(p, l, ExecResult(name, e))
    /\ UNCHANGED <<check_failed, held, out, config, tools, ops, listed>>

\* final_response = await generate_content(history); the response text
Final(p) ==
    /\ pc[p] = "final"
    /\ LET l == [loc[p] EXCEPT !.requests =
                    Append(@, Request("generate_content", "final", history, <<>>, FALSE))]
       IN \/ Raise(p, l, "backend") /\ UNCHANGED history
          \/ \E resp \in PlainResponses :
                Respond(p, [l EXCEPT !.final_response = Received(resp)], history,
                        ResponseText(resp, "Tool execution completed."))
    /\ UNCHANGED <<check_failed, held, out, config, tools, ops, listed>>

\* the caller takes the result (or the exception) of its call
Return(p) ==
    /\ pc[p] \in {"done", "raised"}
    /\ pc' = [pc EXCEPT ![p] = "idle"]
    /\ loc' = [loc EXCEPT ![p] = NoLocals]
    /\ UNCHANGED <<check_failed, held, out, config, history, tools, ops, listed>>

(***************************************************************************)
(* reset_chat and set_history                                              *)
(***************************************************************************)
\* one entry of a list a caller holds: a Content object, and the index at which
\* the session's list holds the very same object (0: the session does not hold it)
HeldEntry(at, content) == [at |-> at, content |-> content]

\* list.copy(): a new list of the same Content objects
Shared(h) == [i \in 1..Len(h) |-> HeldEntry(i, h[i])]

\* the session's list no longer holds any of the caller's objects
Unshared(hl) == [i \in 1..Len(hl) |-> HeldEntry(0, hl[i].content)]

\* the Contents of the list a caller holds
Contents(hl) == [i \in 1..Len(hl) |-> hl[i].content]

\* what a caller may write into the fields of a Content (a dataclass, not frozen)
Roles == {"system", "user", "model"}
Texts == {"edited"}

ResetChat ==
    /\ ops < MaxOps
    /\ ops' = ops + 1
    /\ history' = <<SystemContent>>
    /\ held' = Unshared(held)
    /\ UNCHANGED <<check_failed, out, config, tools, pc, loc, listed>>

\* return self.history.copy()
GetHistory ==
    /\ ops < MaxOps
    /\ ops' = ops + 1
    /\ held' = Shared(history)
    /\ UNCHANGED <<check_failed, out, config, history, tools, pc, loc, listed>>

\* set_history(h) with the list h the caller holds: self.history = h.copy()
SetHistoryHeld ==
    /\ ops < MaxOps
    /\ ops' = ops + 1
    /\ history' = Contents(held)
    /\ held' = Shared(Contents(held))
    /\ UNCHANGED <<check_failed, out, config, tools, pc, loc, listed>>

\* the caller appends a Content of its own to the list it holds
CallerAppend(c) ==
    /\ Len(held) < MaxHeld
    /\ held' = Append(held, HeldEntry(0, c))
    /\ UNCHANGED <<check_failed, out, config, history, tools, pc, loc, ops, listed>>

\* the caller removes the last entry of the list it holds
CallerRemove ==
    /\ held # <<>>
    /\ held' = SubSeq(held, 1, Len(held) - 1)
    /\ UNCHANGED <<check_failed, out, config, history, tools, pc, loc, ops, listed>>

\* the caller assigns the role of an entry of the list it holds: the assignment
\* is to the Content object, whoever else holds it
CallerSetRole(i, r) ==
    /\ i \in 1..Len(held) /\ held[i].content.role # r
    /\ held' = [held EXCEPT ![i].content.role = r]
    /\ history' = IF held[i].at > 0 THEN [history EXCEPT ![held[i].at].role = r]
                  ELSE history
    /\ UNCHANGED <<check_failed, out, config, tools, pc, loc, ops, listed>>

\* the caller changes the parts of an entry of the list it holds
CallerSetText(i, t) ==
    /\ i \in 1..Len(held) /\ held[i].content.text # t
    /\ held' = [held EXCEPT ![i].content.text = t]
    /\ history' = IF held[i].at > 0 THEN [history EXCEPT ![held[i].at].text = t]
                  ELSE history
    /\ UNCHANGED <<check_failed, out, config, tools, pc, loc, ops, listed>>

\* histories a caller may pass to set_history
HistoryInputs ==
    { <<>>,
      <<Content("user", "hi")>>,
      <<SystemContent, Content("user", "hi"), Content("model", "ok"), Content("user", "hi")>> }

\* self.history = history.copy()
SetHistory(h) ==
    /\ ops < MaxOps
    /\ ops' = ops + 1
    /\ history' = h
    /\ held' = Unshared(held)
    /\ UNCHANGED <<check_failed, out, config, tools, pc, loc, listed>>

(***************************************************************************)
(* Specifications.                                                         *)
(***************************************************************************)
\* the steps of a running call
Step(p) ==
    \/ CheckCount(p)
    \/ CompressReturn(p)
    \/ OriginalCount(p)
    \/ Summarize(p)
    \/ NewCount(p)
    \/ Generate(p)
    \/ ToolValidate(p)
    \/ ToolConfirm(p)
    \/ ToolExecute(p)
    \/ Final(p)
    \/ Return(p)

\* send_message and compression calls on a session, one call at a time
NextSend ==
    \/ \E t \in SetupTools : ~HasTool(tools, t.name) /\ RegisterTool(t)
    \/ \E p \in Callers, m \in Msgs : Idle /\ SendMessage(p, m)
    \/ \E p \in Callers, force \in BOOLEAN : Idle /\ TryCompressChat(p, force)
    \/ \E p \in Callers : Step(p)

SpecSend == Init /\ [][NextSend]_vars

\* every call that is awaiting a backend call or a tool is eventually resumed
SpecSendFair == SpecSend /\ \A p \in Callers : WF_vars(Step(p))

\* a session that has served two plain exchanges
OngoingHistory ==
    << SystemContent, Content("user", "hi"), Content("model", "ok"),
       Content("user", "hi"), Content("model", "ok") >>

InitOngoing ==
    /\ config = ChatConfig
    /\ history = OngoingHistory
    /\ tools = <<>>
    /\ pc = [p \in Procs |-> "idle"]
    /\ loc = [p \in Procs |-> NoLocals]
    /\ ops = 0
    /\ listed = MaxCalls      \* the backend lists no tool call in these behaviours
    /\ held = <<>>
    /\ out = <<>>
    /\ check_failed = FALSE

\* the message each caller sends
MsgOf == [p \in Procs |-> IF p = "a" THEN "hi" ELSE "also hi"]

\* send_message calls of two callers on one session with no mutual exclusion: a
\* call may start, and every call moves on from await to await, while another call
\* is suspended at an await (no tool call is listed, so no call reaches the
\* pipeline, and the history is never too short for the entry test of
\* try_compress_chat)
NextConcurrent ==
    \/ \E p \in Procs : SendMessage(p, MsgOf[p])
    \/ \E p \in Procs : CheckCount(p)
    \/ \E p \in Procs : OriginalCount(p)
    \/ \E p \in Procs : Summarize(p)
    \/ \E p \in Procs : NewCount(p)
    \/ \E p \in Procs : Generate(p)
    \/ \E p \in Procs : Final(p)
    \/ \E p \in Procs : Return(p)

SpecConcurrent == InitOngoing /\ [][NextConcurrent]_vars

\* a registry filled by any registrations, then the first send of the session
\* (which is too short for the compression check)
NextRegistry ==
    \/ \E t \in ToolObjs : RegisterTool(t)
    \/ \E p \in Callers, m \in Msgs : Idle /\ ops = 0 /\ SendMessage(p, m)
    \/ \E p \in Callers : Generate(p)
    \/ \E p \in Callers : ToolValidate(p)
    \/ \E p \in Callers : ToolConfirm(p)
    \/ \E p \in Callers : ToolExecute(p)
    \/ \E p \in Callers : Final(p)
    \/ \E p \in Callers : Return(p)

SpecRegistry == Init /\ [][NextRegistry]_vars

\* the backend under sustained pressure: every count it reports is at or above the
\* compression threshold
UnderPressure(p) ==
    /\ loc'[p].token_count >= 0 => ~BelowThreshold(loc'[p].token_count, config.max_tokens)
    /\ pc'[p] = "summarize" =>
            ~BelowThreshold(loc'[p].original_token_count, config.max_tokens)

\* a fresh session that serves sends only, one at a time, against that backend
\* (try_compress_chat never returns at its entry test here: the check runs it on
\* five entries or more)
NextPressure ==
    \/ \E t \in SetupTools : ~HasTool(tools, t.name) /\ RegisterTool(t)
    \/ \E p \in Callers, m \in Msgs : Idle /\ SendMessageWithin(p, m, MaxSends)
    \/ \E p \in Callers : CheckCount(p) /\ UnderPressure(p)
    \/ \E p \in Callers : OriginalCount(p) /\ UnderPressure(p)
    \/ \E p \in Callers : Summarize(p)
    \/ \E p \in Callers : NewCount(p)
    \/ \E p \in Callers : Generate(p)
    \/ \E p \in Callers : ToolValidate(p)
    \/ \E p \in Callers : ToolConfirm(p)
    \/ \E p \in Callers : ToolExecute(p)
    \/ \E p \in Callers : Final(p)
    \/ \E p \in Callers : Return(p)

SpecPressure == Init /\ [][NextPressure]_vars

\* GeminiClient.__init__ with any of the configurations
InitConfig ==
    /\ config \in Configs
    /\ history = <<SystemContent>>
    /\ tools = <<>>
    /\ pc = [p \in Procs |-> "idle"]
    /\ loc = [p \in Procs |-> NoLocals]
    /\ ops = 0
    /\ listed = 0
    /\ held = <<>>
    /\ out = <<>>
    /\ check_failed = FALSE

\* the same calls on a session constructed with any of the configurations
SpecConfig == InitConfig /\ [][NextSend]_vars

\* every public operation of the session, one call at a time
Next ==
    \/ NextSend
    \/ Idle /\ ResetChat
    \/ \E h \in HistoryInputs : Idle /\ SetHistory(h)

Spec == Init /\ [][Next]_vars

\* the accessors of the history and a caller that keeps and changes what it was
\* given or what it passed in
NextAlias ==
    \/ GetHistory
    \/ SetHistoryHeld
    \/ ResetChat
    \/ \E c \in {Content("user", "hi")} : CallerAppend(c)
    \/ CallerRemove
    \/ \E i \in 1..MaxHeld, r \in Roles : CallerSetRole(i, r)
    \/ \E i \in 1..MaxHeld, t \in Texts : CallerSetText(i, t)

SpecAlias == Init /\ [][NextAlias]_vars

(***************************************************************************)
(* Properties.                                                             *)
(***************************************************************************)
Last(q) == q[Len(q)]

Range(q) == {q[i] : i \in 1..Len(q)}

\* the backend calls of one phase, in the order they were issued
RequestsOf(l, phases) == SelectSeq(l.requests, LAMBDA r : r.phase \in phases)

\* call i of the running send went as far as `method`
Invoked(l, i, method) == <<i, method>> \in Range(l.events)

\* the exception that left the call was raised by a tool method
ToolStages == {"validate", "confirm", "describe", "execute"}

----------------------------------------------------------------------------
\* C1: from a fresh session, under send_message and compression calls only,
\* history[0] is at every moment the system turn the session was constructed with.
C1_SystemTurnKept ==
    /\ Len(history) >= 1
    /\ history[1].role = "system"
    /\ history[1] = SystemContent

\* a send during which the automatic compression replaced the history has returned
C1_Witness ==
    \E p \in Procs : pc[p] = "done" /\ loc[p].op = "send" /\ loc[p].replaced /\ loc[p].returned

----------------------------------------------------------------------------
\* C2: under all public operations the history is non-empty and its first element
\* has role 'system'.
C2_HistoryStartsWithSystem ==
    Len(history) >= 1 /\ history[1].role = "system"

----------------------------------------------------------------------------
\* C3: no call is ever left by an exception that a tool's validator, confirmation
\* gate, description or execute raised: the pipeline turns each into a ToolResult.
C3_PipelineNeverRaises ==
    \A p \in Procs : pc[p] = "raised" => loc[p].exc \notin ToolStages

----------------------------------------------------------------------------
\* C4: a call whose validator returned a non-null reason never reaches the
\* confirmation gate or execute: whenever the pipeline is at either of them, the
\* validator had returned None.
C4_InvalidNeverExecutes ==
    \A p \in Procs :
        pc[p] \in {"confirm", "execute"} => loc[p].validation_error.kind = "none"

----------------------------------------------------------------------------
\* result i of the running send is the error made from an exception of execute
ExecuteRaised(l, i) ==
    /\ i <= Len(l.tool_results)
    /\ l.tool_results[i].has_error
    /\ Invoked(l, i, "execute")

\* C5: once execute of some call of a send has raised, that call's result is an
\* error, the send is not left by an exception while the later calls are processed
\* (a backend failure apart), and when it returns every call has its result.
C5_ExecuteFailureIsolated ==
    \A p \in Procs :
        (\E i \in 1..Len(loc[p].tool_calls) : ExecuteRaised(loc[p], i)) =>
            /\ pc[p] = "raised" => loc[p].exc = "backend"
            /\ pc[p] = "done" => Len(loc[p].tool_results) = Len(loc[p].tool_calls)

----------------------------------------------------------------------------
\* the message names the tool
Identifies(msg, name) ==
    \E a \in {"", "Tool '", "Tool "}, b \in {"", "' not found", " not found"} :
        msg = a \o name \o b

\* the tool-call loop is at a call whose name is not in the registry
AtMissingTool(p) ==
    pc[p] = "tool" /\ ~HasTool(tools, loc[p].tool_calls[loc[p].idx])

\* the step that handles a call naming an unregistered tool records an error
\* result that identifies the name, invokes no tool method, raises nothing from the
\* pipeline, and moves the loop on to the next call if there is one.
C6_MissingToolStep ==
    \A p \in Procs :
        AtMissingTool(p) /\ loc'[p] # loc[p] =>
            LET l == loc[p]
                name == l.tool_calls[l.idx]
                r == Last(loc'[p].tool_results)
            IN /\ Len(loc'[p].tool_results) = Len(l.tool_results) + 1
               /\ r.tool_name = name /\ r.has_error /\ ~r.has_result
               /\ Identifies(r.error, name)
               /\ loc'[p].events = l.events
               /\ loc'[p].exc \notin ToolStages
               /\ l.idx < Len(l.tool_calls) => pc'[p] = "tool" /\ loc'[p].idx = l.idx + 1

\* C6: every step of every behaviour handles a call naming an unregistered tool
\* that way.
C6_MissingToolIsolated == [][C6_MissingToolStep]_vars

\* a missing tool was followed by a call that ran and succeeded
C6_Witness ==
    \E p \in Procs :
        /\ Len(loc[p].tool_results) = 2
        /\ ~HasTool(tools, loc[p].tool_calls[1])
        /\ loc[p].tool_results[1].has_error
        /\ loc[p].tool_results[2].has_result
        /\ pc[p] = "done"

----------------------------------------------------------------------------
\* the tool methods were invoked call by call, a call only after the one before it
\* had produced its result
Sequential(l) ==
    /\ \A j, k \in 1..Len(l.events) : j <= k => l.events[j][1] <= l.events[k][1]
    /\ \A j \in 1..Len(l.events) : l.events[j][1] <= Len(l.tool_results) + 1

\* C7: a send whose first response listed n >= 1 tool calls invokes them one after
\* the other in the listed order, and its tool phase ends with n results, result i
\* carrying call i's name and exactly one of result / error, encoded in one
\* 'function' Content appended to history.
C7_AllCallsRecorded ==
    \A p \in Procs :
        LET l == loc[p]
            n == Len(l.tool_calls)
        IN n >= 1 =>
            /\ Sequential(l)
            /\ pc[p] \in {"final", "done", "raised"} =>
                /\ Len(l.tool_results) = n
                /\ \A i \in 1..n :
                      /\ l.tool_results[i].tool_name = l.tool_calls[i]
                      /\ l.tool_results[i].has_result # l.tool_results[i].has_error
                /\ LET at == IF pc[p] = "done" THEN Len(history) - 1 ELSE Len(history)
                   IN /\ at >= 1
                      /\ history[at] = Content("function", JsonDumps(l.tool_results))
                      /\ at > 1 => history[at - 1].role # "function"

----------------------------------------------------------------------------
\* the request-cycle generate_content calls of a running send
CycleRequests(l) == RequestsOf(l, {"first", "final"})

\* C8: a send never issues more than two request-cycle generate_content calls; one
\* that took the tool branch and returned issued exactly one follow-up call, with
\* the history (ending with the 'function' Content) and neither tools nor system
\* instruction; its response text is the follow-up's text, or 'Tool execution
\* completed.' when that has none; nothing was executed for the follow-up's tool
\* calls.
C8_OneFollowUp ==
    \A p \in Procs :
        LET l == loc[p]
            cycle == CycleRequests(l)
        IN /\ Len(cycle) <= 2
           /\ (pc[p] = "done" /\ l.op = "send" /\ l.response.has_calls) =>
                /\ Len(cycle) = 2
                /\ cycle[1].phase = "first" /\ cycle[2].phase = "final"
                /\ cycle[2].tools = <<>> /\ ~cycle[2].system_instruction
                /\ cycle[2].contents = SubSeq(history, 1, Len(history) - 1)
                /\ Last(cycle[2].contents).role = "function"
                /\ l.final_response.set
                /\ l.response_text =
                      (IF l.final_response.has_text THEN l.final_response.text
                       ELSE "Tool execution completed.")
                /\ Len(l.tool_results) = Len(l.response.tool_calls)
                /\ \A j \in 1..Len(l.events) : l.events[j][1] <= Len(l.response.tool_calls)
                /\ Cardinality({j \in 1..Len(l.events) : l.events[j][2] = "execute"})
                      <= Len(l.response.tool_calls)
                /\ Last(history).role = "model"

\* a send returned the placeholder after a follow-up response that carried tool
\* calls and no text
C8_Witness ==
    \E p \in Procs :
        /\ pc[p] = "done" /\ loc[p].tool_calls # <<>>
        /\ loc[p].final_response.has_calls /\ loc[p].final_response.tool_calls # <<>>
        /\ loc[p].response_text = "Tool execution completed."

----------------------------------------------------------------------------
\* C9: once the first response of a send carries no tool calls (no list, or an
\* empty one), no tool method is invoked, no 'function' Content is appended, no
\* second generate_content call is issued, and the send returns that response's
\* text, or 'No response generated.' when it has none.
C9_NoToolCallsNoToolBranch ==
    \A p \in Procs :
        LET l == loc[p]
        IN (l.response.set /\ (~l.response.has_calls \/ l.response.tool_calls = <<>>)) =>
            /\ l.events = <<>>
            /\ RequestsOf(l, {"final"}) = <<>>
            /\ pc[p] # "final"
            /\ Last(history).role # "function"
            /\ pc[p] = "done" =>
                /\ l.response_text =
                      (IF l.response.has_text THEN l.response.text
                       ELSE "No response generated.")
                /\ Len(history) >= 2 /\ history[Len(history) - 1].role # "function"

----------------------------------------------------------------------------
\* C10: when send_message returns, the last history entry is a 'model' Content
\* whose text is the returned text, and it is the only one this send appended: the
\* entry before it is the send's 'user' turn or its 'function' turn.
C10_ModelTurnIsLast ==
    \A p \in Procs :
        (pc[p] = "done" /\ loc[p].op = "send") =>
            /\ loc[p].returned
            /\ Len(history) >= 2
            /\ Last(history).role = "model"
            /\ Last(history).text = loc[p].response_text
            /\ history[Len(history) - 1].role \in {"user", "function"}

\* a send that ran two tools returned the backend's text
C10_Witness ==
    \E p \in Procs :
        /\ pc[p] = "done" /\ loc[p].op = "send" /\ loc[p].returned
        /\ Len(loc[p].tool_results) = 2
        /\ loc[p].response_text = "ok"

----------------------------------------------------------------------------
\* the positions of a call inside the compression check
CheckPcs == {"check_count", "compress_return", "original_count", "summarize", "new_count"}

\* the backend calls the compression check makes
CompressionPhases == {"check", "original", "summary", "new"}

\* the 'user' Content a send appends
UserTurn(l) == Content("user", l.message)

\* the history a compression pass of the running call starts from
PreHistory(l) == IF l.op = "send" THEN Append(l.before, UserTurn(l)) ELSE l.before

\* the last k entries of a sequence
Suffix(q, k) == SubSeq(q, Len(q) - k + 1, Len(q))

\* C11: within a send the 'user' Content is appended first (the check's token count
\* already sees it), the compression check then runs to completion, and only then
\* is the first generate_content request issued; that request carries the history
\* as the check left it (replaced or not), ending with the new user turn.
C11_UserThenCheckThenRequest ==
    \A p \in Procs :
        LET l == loc[p]
        IN l.op = "send" =>
            /\ pc[p] \in CheckPcs =>
                  /\ RequestsOf(l, {"first", "final"}) = <<>>
                  /\ l.events = <<>> /\ ~l.response.set
            /\ pc[p] = "generate" => history # <<>> /\ Last(history) = UserTurn(l)
            /\ \A i \in 1..Len(l.requests) :
                  /\ l.requests[i].phase \in {"check", "original"} =>
                        l.requests[i].contents = Append(l.before, UserTurn(l))
                  /\ l.requests[i].phase = "first" =>
                        LET c == l.requests[i].contents
                        IN /\ \A j \in 1..Len(l.requests) :
                                 l.requests[j].phase \in CompressionPhases => j < i
                           /\ Len(c) <= Len(history) /\ c = SubSeq(history, 1, Len(c))
                           /\ Last(c) = UserTurn(l)
                           /\ IF l.replaced
                              THEN /\ Len(c) >= 5
                                   /\ c[1] = l.before[1]
                                   /\ c[2].role = "user" /\ c[3].role = "model"
                                   /\ SubSeq(c, 4, Len(c)) = Suffix(PreHistory(l), Len(c) - 3)
                              ELSE c = Append(l.before, UserTurn(l))

\* the first request of a send was issued after the check replaced the history
C11_Witness ==
    \E p \in Procs :
        /\ loc[p].op = "send" /\ loc[p].replaced
        /\ RequestsOf(loc[p], {"first"}) # <<>>
        /\ RequestsOf(loc[p], {"summary"}) # <<>>

----------------------------------------------------------------------------
\* C12: right after a compression pass has replaced the history, the history has
\* at least preserve_count + 3 entries (the system turn, the summary 'user' turn,
\* the acknowledgment 'model' turn and the preserved suffix), preserve_count being
\* the value the pass computed from the history it started from.
C12_AtLeastPreservePlusThree ==
    \A p \in Procs :
        LET l == loc[p]
        IN pc[p] = "new_count" =>
            /\ l.replaced
            /\ l.preserve_count >= 2
            /\ l.preserve_count + l.split_index = Len(PreHistory(l))
            /\ Len(history) >= l.preserve_count + 3

\* a caller-invoked pass has replaced the history
C12_Witness ==
    \E p \in Procs :
        /\ pc[p] = "new_count" /\ loc[p].op = "compress"
        /\ Len(history) = loc[p].preserve_count + 3

----------------------------------------------------------------------------
\* C13: a send whose history, the new user turn included, has fewer than 5 entries
\* never enters the compression check's awaits: no count_tokens and no summary
\* request is issued and the history is left as it was; with 5 entries or more the
\* first backend call of the send is the check's count_tokens on that history.
C13_NoCheckBelowFive ==
    \A p \in Procs :
        LET l == loc[p]
            pre == PreHistory(l)
        IN l.op = "send" =>
            IF Len(pre) < 5
            THEN /\ pc[p] \notin CheckPcs
                 /\ RequestsOf(l, CompressionPhases) = <<>>
                 /\ ~l.replaced
                 /\ Len(history) >= Len(pre) /\ SubSeq(history, 1, Len(pre)) = pre
            ELSE pc[p] # "check_count" =>
                 /\ l.requests # <<>>
                 /\ l.requests[1].fn = "count_tokens" /\ l.requests[1].phase = "check"
                 /\ l.requests[1].contents = pre

\* a send on a history of 4 entries (the user turn included) has returned
C13_Witness ==
    \E p \in Procs :
        /\ loc[p].op = "send" /\ Len(PreHistory(loc[p])) = 4
        /\ pc[p] = "done" /\ loc[p].returned

----------------------------------------------------------------------------
\* C14: a call (forced or not) that starts from a history whose compression target
\* history[:split_index] has fewer than 2 entries never issues a summary request
\* and never replaces the history, and it returns no ChatCompressionInfo.
C14_SmallTargetNotCompressed ==
    \A p \in Procs :
        LET l == loc[p]
            pre == PreHistory(l)
        IN (l.op # "none" /\ Len(HistoryToCompress(pre)) < 2) =>
            /\ pc[p] \notin {"summarize", "new_count"}
            /\ RequestsOf(l, {"summary"}) = <<>>
            /\ ~l.replaced /\ ~l.info.set
            /\ l.op = "compress" => history = l.before

\* a forced compression of a 2-entry history (system + one user turn) has returned
C14_Witness ==
    \E p \in Procs :
        /\ loc[p].op = "compress" /\ loc[p].force /\ pc[p] = "done"
        /\ Len(loc[p].before) = 2
        /\ loc[p].before[1].role = "system" /\ loc[p].before[2].role = "user"
        /\ RequestsOf(loc[p], {"original"}) # <<>>

----------------------------------------------------------------------------
\* C15: a forced compression (try_compress_chat(force=True)) of a history with
\* fewer than 5 entries issues no summary request, leaves the history unchanged
\* and returns no ChatCompressionInfo.
C15_ForcedKeepsFiveGate ==
    \A p \in Procs :
        LET l == loc[p]
        IN (l.op = "compress" /\ l.force /\ Len(l.before) < 5) =>
            /\ pc[p] \notin {"summarize", "new_count"}
            /\ RequestsOf(l, {"summary"}) = <<>>
            /\ ~l.replaced /\ ~l.info.set
            /\ history = l.before

----------------------------------------------------------------------------
\* C16: right after a compression pass has replaced the history, the entries after
\* the three leading turns are exactly the last preserve_count entries of the
\* history the pass started from, in the same order.
C16_SuffixPreserved ==
    \A p \in Procs :
        LET l == loc[p]
            k == l.preserve_count
            pre == PreHistory(l)
        IN pc[p] = "new_count" =>
            /\ k <= Len(pre) /\ k <= Len(history)
            /\ Suffix(history, k) = Suffix(pre, k)
            /\ SubSeq(history, 4, Len(history)) = Suffix(pre, k)

\* an automatic pass has replaced a history whose preserved suffix holds the model
\* turn of the send before and the new user turn
C16_Witness ==
    \E p \in Procs :
        /\ pc[p] = "new_count" /\ loc[p].op = "send"
        /\ loc[p].preserve_count = 2
        /\ history[Len(history) - 1].role = "model"
        /\ Last(history) = UserTurn(loc[p])

----------------------------------------------------------------------------
\* C20: right after the automatic check of a send has replaced the history, the
\* history has no more entries than it had just before the replacement (the new
\* user turn included).
C20_AutomaticNeverGrows ==
    \A p \in Procs :
        (pc[p] = "new_count" /\ loc[p].op = "send") =>
            /\ loc[p].replaced
            /\ Len(history) <= Len(PreHistory(loc[p]))

\* the automatic check has replaced a 5-entry history
C20_Witness ==
    \E p \in Procs :
        /\ pc[p] = "new_count" /\ loc[p].op = "send" /\ loc[p].replaced
        /\ Len(PreHistory(loc[p])) = 5
        /\ RequestsOf(loc[p], {"check"}) # <<>>

----------------------------------------------------------------------------
\* the texts a summary response can yield
SummaryTexts == {ResponseText(r, "Summary not available") : r \in PlainResponses}

\* max(2, floor(n * preserveFraction)) with the session's configured fraction
ConfiguredPreserveCount(n) == Max(2, (n * config.compression_preserve_threshold) \div 10)

\* the token count reaches compressionThresholdFraction * maxTokens of the
\* session's configuration
ReachesConfiguredThreshold(tc) == tc * 10 >= config.compression_threshold * config.max_tokens

\* the running call has entered a compression pass
PassAttempted(p) ==
    \/ pc[p] \in {"compress_return", "original_count", "summarize", "new_count"}
    \/ RequestsOf(loc[p], {"original"}) # <<>>

\* C17: a pass on a history h of n entries preserves max(2, floor(n * p)) entries,
\* p being the session's preserve fraction, splits at n - preserve_count, and
\* leaves exactly h[0], a 'user' turn stating the summary, the 'model'
\* acknowledgment turn and h[split_index:], preserve_count + 3 entries in all.
C17_RebuiltAsSpecified ==
    \A p \in Procs :
        LET l == loc[p]
            h == PreHistory(l)
            n == Len(h)
            k == ConfiguredPreserveCount(n)
        IN pc[p] = "new_count" =>
            /\ l.preserve_count = k
            /\ l.split_index = n - k
            /\ Len(history) = k + 3
            /\ \E summary \in SummaryTexts :
                  history = << h[1],
                               Content("user", "Previous conversation summary: " \o summary),
                               Content("model", "Got it. Thanks for the additional context!") >>
                            \o SubSeq(h, n - k + 1, n)

----------------------------------------------------------------------------
\* C18: once the automatic check of a send has its token count, the send goes on
\* to its request with the history untouched and no pass attempted if the count is
\* below compressionThresholdFraction * maxTokens of the configuration, and a pass
\* is attempted if the count is equal to or above it.
C18_ThresholdDecides ==
    \A p \in Procs :
        LET l == loc[p]
        IN (l.op = "send" /\ l.token_count # -1) =>
            IF ReachesConfiguredThreshold(l.token_count)
            THEN PassAttempted(p)
            ELSE /\ ~PassAttempted(p)
                 /\ RequestsOf(l, {"summary"}) = <<>>
                 /\ ~l.replaced
                 /\ history = PreHistory(l)

----------------------------------------------------------------------------
\* C19: the thresholds in force are those of the Config the session was
\* constructed with: the automatic check enters a pass exactly when the token
\* count is at least compression_threshold * max_tokens, and every pass preserves
\* max(2, floor(len * compression_preserve_threshold)) entries.
C19_ThresholdsFromConfig ==
    \A p \in Procs :
        LET l == loc[p]
        IN /\ (l.op = "send" /\ l.token_count # -1) =>
                (PassAttempted(p) <=> ReachesConfiguredThreshold(l.token_count))
           /\ pc[p] \in {"summarize", "new_count"} =>
                l.preserve_count = ConfiguredPreserveCount(Len(PreHistory(l)))

----------------------------------------------------------------------------
\* C21: the ChatCompressionInfo a compression call returns holds the count_tokens
\* result taken on the history before the replacement and the one taken on the
\* history after it, and its compression_ratio is new / original when original is
\* positive and 1.0 when original is 0.
C21_RatioOfTheTwoCounts ==
    \A p \in Procs :
        LET l == loc[p]
            i == l.info
            r == i.compression_ratio
        IN i.set =>
            /\ i.original_token_count = l.original_token_count
            /\ i.new_token_count = l.new_token_count
            /\ Len(RequestsOf(l, {"original"})) = 1 /\ Len(RequestsOf(l, {"new"})) = 1
            /\ RequestsOf(l, {"original"})[1].contents = l.before
            /\ RequestsOf(l, {"new"})[1].contents = history
            /\ r.den # 0
            /\ IF i.original_token_count > 0
               THEN r.num * i.original_token_count = i.new_token_count * r.den
               ELSE r.num = r.den

\* a pass returned an info whose counts differ and are both positive
C21_Witness ==
    \E p \in Procs :
        /\ pc[p] = "done" /\ loc[p].info.set
        /\ loc[p].info.original_token_count = 3200
        /\ loc[p].info.new_token_count = 3199

\* a pass returned an info whose original count is 0
C21_WitnessZero ==
    \E p \in Procs :
        /\ pc[p] = "done" /\ loc[p].info.set
        /\ loc[p].info.original_token_count = 0
        /\ loc[p].info.new_token_count = 3199

----------------------------------------------------------------------------
\* the step appends one Content and touches no existing entry
AppendsOne ==
    /\ Len(history') = Len(history) + 1
    /\ SubSeq(history', 1, Len(history)) = history
    /\ Last(history').role \in {"user", "model", "function"}

\* the step replaces the history by a fully built compression result: the first
\* entry, the two synthetic turns, and a tail of the old history in its order
ReplacesWholesale ==
    /\ \E p \in Procs : pc[p] = "summarize" /\ pc'[p] = "new_count"
    /\ Len(history') >= 3 /\ Len(history') - 3 <= Len(history)
    /\ history'[1] = history[1]
    /\ history'[2].role = "user" /\ history'[3].role = "model"
    /\ SubSeq(history', 4, Len(history')) = Suffix(history, Len(history') - 3)

C22_Step ==
    /\ history' = history \/ AppendsOne \/ ReplacesWholesale
    /\ \A p \in Procs : (pc[p] # "raised" /\ pc'[p] = "raised") => history' = history

\* C22: every step of send_message and try_compress_chat, the steps at which a
\* backend call or anything else fails included, leaves the history as it is,
\* appends one whole Content to it, or replaces it by a fully built compression
\* result; a step that fails leaves it as it is.
C22_NoCorruption == [][C22_Step]_vars

\* the summarization request of an automatic pass failed and the history is what it
\* was before the pass
C22_Witness ==
    \E p \in Procs :
        /\ pc[p] = "raised" /\ loc[p].exc = "backend" /\ loc[p].op = "send"
        /\ Last(loc[p].requests).phase = "summary"
        /\ history = PreHistory(loc[p])

----------------------------------------------------------------------------
\* the names of a list of schemas, in the list's order
SchemaNames(decls) == [i \in 1..Len(decls) |-> decls[i].name]

\* the schema made of a tool's construction arguments
SchemaOf(t) == [name |-> t.name, description |-> t.description, parameters |-> t.parameters]

C24_Step ==
    \A t \in ToolObjs :
        RegisterTool(t) =>
            LET decls == GetFunctionDeclarations(tools')
            IN /\ GetTool(tools', t.name) = t
               /\ \E i \in 1..Len(decls) : decls[i] = SchemaOf(t)
               /\ \A n \in ToolNames \ {t.name} :
                     /\ GetTool(tools', n) = GetTool(tools, n)
                     /\ HasTool(tools, n) =>
                           \E i \in 1..Len(decls) : decls[i] = SchemaOf(GetTool(tools, n))

\* C24: a step register_tool(t) leaves a registry in which get_tool(t.name) is t
\* and get_function_declarations holds the schema made of t's name, description
\* and parameters, and it leaves what is registered under every other name (tool
\* and schema) as it was.
C24_RoundTrip == [][C24_Step]_vars

\* the second calculator replaced the first and another name was registered after
C24_Witness ==
    /\ Len(tools) = 2 /\ out # <<>>
    /\ GetTool(tools, "math_calculator").id = 2
    /\ tools[2].name = "echo_tool"

----------------------------------------------------------------------------
\* what a send advertises is one schema per registered name, in the registry's order
C25_Advertised ==
    \A p \in Procs :
        \A i \in 1..Len(loc[p].requests) :
            loc[p].requests[i].phase = "first" =>
                LET d == loc[p].requests[i].tools
                IN /\ Len(d) = Len(tools)
                   /\ \A j \in 1..Len(d) : d[j] = SchemaOf(tools[j])
                   /\ Cardinality(Range(SchemaNames(d))) = Len(d)
                   /\ d = GetFunctionDeclarations(tools)

\* a registration of a new name adds its schema at the end of the list; one of a
\* name already there leaves the order of the names as it is
C25_Step ==
    \A t \in ToolObjs :
        RegisterTool(t) =>
            LET old == SchemaNames(GetFunctionDeclarations(tools))
                new == SchemaNames(GetFunctionDeclarations(tools'))
            IN /\ new = (IF t.name \in Range(old) THEN old ELSE Append(old, t.name))
               /\ Cardinality(Range(new)) = Len(new)

\* C25: get_function_declarations lists exactly one schema per registered name, in
\* the order the names were registered, and the first request of a send carries
\* exactly that list (the empty list for an empty registry).
C25_OneSchemaPerNameInOrder == []C25_Advertised /\ [][C25_Step]_vars

\* a send advertised two tools, the overwritten calculator first
C25_Witness ==
    \E p \in Procs :
        /\ loc[p].requests # <<>> /\ loc[p].requests[1].phase = "first"
        /\ Len(loc[p].requests[1].tools) = 2
        /\ loc[p].requests[1].tools[1].name = "math_calculator"
        /\ loc[p].requests[1].tools[1].description = "Another calculator"
        /\ loc[p].requests[1].tools[2].name = "echo_tool"

----------------------------------------------------------------------------
C26_Step ==
    \A t \in ToolObjs :
        RegisterTool(t) =>
            IF HasTool(tools, t.name)
            THEN /\ GetTool(tools', t.name) = t
                 /\ Len(tools') = Len(tools)
                 /\ SchemaNames(tools') = SchemaNames(tools)
                 /\ out' = Append(out, Warning(t.name))
            ELSE /\ GetTool(tools', t.name) = t
                 /\ Len(tools') = Len(tools) + 1
                 /\ out' = out

\* C26: a step register_tool(t) on a registry that has t's name stores t under it,
\* leaves the number and the names of the registered tools as they are and prints
\* one warning naming the tool; on a registry that lacks the name it adds t and
\* prints nothing.
C26_OverwriteWarns == [][C26_Step]_vars

\* the calculator was registered, then overwritten by the other calculator
C26_Witness ==
    /\ Len(tools) = 1 /\ tools[1].id = 2
    /\ out = <<Warning("math_calculator")>>

----------------------------------------------------------------------------
\* the step is a change the caller makes to the list it holds or to an entry of it
CallerMutation ==
    \/ \E c \in {Content("user", "hi")} : CallerAppend(c)
    \/ CallerRemove
    \/ \E i \in 1..MaxHeld, r \in Roles : CallerSetRole(i, r)
    \/ \E i \in 1..MaxHeld, t \in Texts : CallerSetText(i, t)

\* C23: no change a caller makes to the list get_history returned or to the list
\* it passed to set_history (entries added or removed, the role or the parts of an
\* entry changed) changes the session's history.
C23_NoMutableAlias == [][CallerMutation => history' = history]_vars

----------------------------------------------------------------------------
\* the tool methods invoked for call i of the running send, in order
MethodsOf(l, i) ==
    LET es == SelectSeq(l.events, LAMBDA e : e[1] = i)
    IN [j \in 1..Len(es) |-> es[j][2]]

\* the orders in which the pipeline may have invoked the methods of one call so far
PipelineOrders ==
    LET full == { <<"validate", "confirm", "execute">>,
                  <<"validate", "confirm", "describe", "execute">> }
    IN UNION { {SubSeq(q, 1, n) : n \in 0..Len(q)} : q \in full }

\* C27: the methods of a call are invoked in the order validate, confirmation
\* gate, description (if any), execute; when the pipeline is about to execute, the
\* description has been produced if and only if the gate requested confirmation;
\* and once the description has been produced the call goes on to execute.
C27_ValidateConfirmExecute ==
    \A p \in Procs :
        LET l == loc[p]
        IN /\ \A i \in 1..Len(l.tool_calls) : MethodsOf(l, i) \in PipelineOrders
           /\ pc[p] = "execute" =>
                /\ l.confirmation \in {"false", "details"}
                /\ l.validation_error.kind # "raise"
                /\ MethodsOf(l, l.idx) \in { <<"validate", "confirm">>,
                                             <<"validate", "confirm", "describe">> }
                /\ (l.confirmation = "details") <=> Invoked(l, l.idx, "describe")
           /\ \A i \in 1..Len(l.tool_calls) :
                (Invoked(l, i, "describe") /\ ~(pc[p] = "raised" /\ l.exc = "describe")) =>
                    \/ pc[p] = "execute" /\ l.idx = i
                    \/ Invoked(l, i, "execute")

\* a call whose gate requested confirmation was described, executed and succeeded
C27_Witness ==
    \E p \in Procs :
        /\ MethodsOf(loc[p], 1) = <<"validate", "confirm", "describe", "execute">>
        /\ Len(loc[p].tool_results) >= 1 /\ loc[p].tool_results[1].has_result

----------------------------------------------------------------------------
\* C28: when the response to the summarization request carries no text (nothing at
\* all, or tool calls only), the pass goes on: the history is rebuilt with the
\* placeholder 'Summary not available' as the summary, no tool method is invoked
\* and no further generate_content call is made for that response, and the pass
\* ends by returning a ChatCompressionInfo (unless count_tokens itself fails).
C28_PlaceholderSummary ==
    \A p \in Procs :
        LET l == loc[p]
        IN (l.summary_response.set /\ ~l.summary_response.has_text) =>
            /\ l.replaced
            /\ Len(history) >= 3
            /\ history[2] =
                  Content("user", "Previous conversation summary: Summary not available")
            /\ history[3].role = "model"
            /\ SubSeq(history, 4, Len(history)) = l.history_to_keep
            /\ l.events = <<>>
            /\ Last(l.requests).phase \in {"summary", "new"}
            /\ pc[p] \in {"new_count", "done", "raised"}
            /\ pc[p] = "raised" => l.exc = "backend" /\ Last(l.requests).phase = "new"
            /\ pc[p] = "done" => l.info.set

\* a pass whose summary response carried only a tool call returned its info
C28_Witness ==
    \E p \in Procs :
        /\ pc[p] = "done" /\ loc[p].info.set
        /\ loc[p].summary_response.has_calls
        /\ loc[p].summary_response.tool_calls # <<>>
        /\ ~loc[p].summary_response.has_text

----------------------------------------------------------------------------
\* the call of p has had the session to itself: no other call was running when it
\* started and no operation has started since
Exclusive(p) == loc[p].alone /\ ops = loc[p].started

\* the step at which a pass of p replaces the history
ReplaceStep(p) == pc[p] = "summarize" /\ pc'[p] = "new_count"

\* a pass that has had the session to itself finds, when its summary arrives, the
\* history it sliced: every entry is in the compression target or in the preserved
\* suffix, and the suffix is all there after the replacement
C29_Step ==
    \A p \in Procs :
        (ReplaceStep(p) /\ Exclusive(p)) =>
            /\ history = loc[p].history_to_compress \o loc[p].history_to_keep
            /\ SubSeq(history', 4, Len(history')) = loc[p].history_to_keep

\* C29: a Content can be missing from the history after a pass without having been
\* in the compression target or in the preserved suffix only if another call ran
\* while the pass was awaiting: under mutual exclusion no entry is lost. (That it
\* is lost without mutual exclusion is the state C29_Witness.)
C29_RaceOnlyWithoutExclusion == [][C29_Step]_vars

\* the pass of one send has replaced the history while another send, which
\* appended its user turn during the pass, is under way: that turn is in the
\* history no more, and it was neither summarised nor preserved
C29_Witness ==
    \E p, q \in Procs :
        /\ p # q
        /\ pc[p] = "new_count" /\ loc[p].op = "send" /\ loc[p].replaced
        /\ loc[q].op = "send" /\ pc[q] \in {"check_count", "original_count", "generate"}
        /\ UserTurn(loc[q]) \notin Range(history)
        /\ UserTurn(loc[q]) \notin Range(loc[p].history_to_compress)
        /\ UserTurn(loc[q]) \notin Range(loc[p].history_to_keep)

----------------------------------------------------------------------------
\* how many times a tool method was invoked for call i
TimesInvoked(l, i, method) ==
    Cardinality({j \in 1..Len(l.events) : l.events[j] = <<i, method>>})

\* what a send has issued so far is within the limits
C30_Bounded ==
    \A p \in Procs :
        LET l == loc[p]
        IN l.op = "send" =>
            /\ Len(RequestsOf(l, {"summary"})) <= 1
            /\ Len(SelectSeq(l.requests, LAMBDA r : r.fn = "count_tokens")) <= 3
            /\ Len(RequestsOf(l, {"first", "final"})) <= 2
            /\ Len(l.tool_results) <= Len(l.tool_calls)
            /\ \A j \in 1..Len(l.events) : l.events[j][1] \in 1..Len(l.tool_calls)
            /\ \A i \in 1..Len(l.tool_calls) :
                  \A method \in ToolStages : TimesInvoked(l, i, method) <= 1

\* a send that is running has not yet returned or raised
Running(p) == loc[p].op = "send" /\ pc[p] \notin {"idle", "done", "raised"}

\* C30: a send issues at most one summarization request, three count_tokens
\* calls, two request-cycle generate_content calls and one pipeline invocation per
\* listed tool call; and, every awaited call completing, a send that is running
\* eventually returns or raises.
C30_SendTerminates ==
    /\ []C30_Bounded
    /\ \A p \in Callers : Running(p) ~> (pc[p] \in {"done", "raised"})

\* a send that compressed, ran two tool calls and asked for the follow-up returned
C30_Witness ==
    \E p \in Procs :
        /\ pc[p] = "done" /\ loc[p].op = "send" /\ loc[p].returned
        /\ Len(loc[p].requests) = 6
        /\ Len(loc[p].tool_results) = 2

----------------------------------------------------------------------------
\* the 'function' turn a send appends for the results it collected
FunctionTurn(l) == Content("function", JsonDumps(l.tool_results))

\* the 'model' turn a send appends for the text it returns
ModelTurn(l) == Content("model", l.response_text)

\* the first response of the send lists one or more tool calls
CarriedToolCalls(l) == l.response.set /\ l.response.tool_calls # <<>>

\* C31: when a send during which no compression replaced the history has
\* returned, the history is the history before the call followed by the user
\* turn, then one 'function' turn exactly when the first response carried one or
\* more tool calls, then the model turn: earlier entries are untouched and the
\* length has grown by 2 or 3.
C31_FrameOfPlainSend ==
    \A p \in Procs :
        LET l == loc[p]
        IN (pc[p] = "done" /\ l.op = "send" /\ ~l.replaced) =>
            /\ history = PreHistory(l)
                            \o (IF CarriedToolCalls(l) THEN <<FunctionTurn(l)>> ELSE <<>>)
                            \o <<ModelTurn(l)>>
            /\ Len(history) - Len(l.before) \in {2, 3}

----------------------------------------------------------------------------
\* the history is within the limits: 8 entries while a send is in its compression
\* check (before the check has replaced anything), 7 once a send has returned
WithinLimits ==
    \A p \in Procs :
        loc[p].op = "send" =>
            /\ pc[p] \in {"check_count", "original_count", "summarize"} => Len(history) <= 8
            /\ pc[p] = "done" => Len(history) <= 7

----------------------------------------------------------------------------
\* the first generate_content call of p's send has failed and the send has ended
FirstRequestFailed(p) ==
    /\ loc[p].op = "send" /\ loc[p].exc = "backend"
    /\ loc[p].requests # <<>> /\ Last(loc[p].requests).phase = "first"
    /\ pc[p] \notin {"generate"}

\* the step at which the first generate_content call of p's send fails
FirstRequestFails(p) ==
    /\ pc[p] = "generate" /\ loc[p].op = "send"
    /\ pc'[p] # "generate" /\ ~loc'[p].response.set

C33_State ==
    \A p \in Procs :
        LET l == loc[p]
        IN FirstRequestFailed(p) =>
            /\ pc[p] = "raised" /\ ~l.returned
            /\ Len(RequestsOf(l, {"first"})) = 1 /\ RequestsOf(l, {"final"}) = <<>>
            /\ l.events = <<>> /\ l.tool_results = <<>>
            /\ history = Last(l.requests).contents
            /\ Last(history) = UserTurn(l)
            /\ ~l.replaced => history = PreHistory(l)
            /\ l.replaced =>
                  /\ Len(history) >= 5
                  /\ SubSeq(history, 4, Len(history)) =
                        Suffix(PreHistory(l), Len(history) - 3)

C33_Step ==
    \A p \in Procs :
        FirstRequestFails(p) =>
            /\ pc'[p] = "raised" /\ loc'[p].exc = "backend"
            /\ history' = history
            /\ loc'[p].requests = Append(loc[p].requests, Last(loc'[p].requests))

\* C33: a failure of the first generate_content call of a send leaves the send
\* with the backend's exception at once, with no second attempt and nothing undone:
\* the history is then the one the request was made with (the history before the
\* call plus the user turn, or what the compression check made of it), its last
\* entry is the send's user turn, and no 'function' or 'model' turn was added.
C33_FirstRequestFailurePropagates == []C33_State /\ [][C33_Step]_vars

\* the first request of a send failed after the compression check had replaced the
\* history
C33_Witness ==
    \E p \in Procs :
        /\ FirstRequestFailed(p) /\ pc[p] = "raised"
        /\ loc[p].replaced
        /\ Last(history) = UserTurn(loc[p])

----------------------------------------------------------------------------
\* C34: whenever try_compress_chat, called directly with any value of force, has
\* replaced the history, the history has no more entries than it had when the call
\* was made.
C34_DirectNeverGrows ==
    \A p \in Procs :
        (loc[p].op = "compress" /\ loc[p].replaced) =>
            Len(history) <= Len(loc[p].before)

====
